---- MODULE Spec2Model ----
(***************************************************************************)
(* Model of the hyperknowledge infrastructure bootstrap:                   *)
(*   - scripts/initial_setup.py: the provisioning script (credential       *)
(*     resolution, per-environment roles / database / secret, INI file and *)
(*     REST-proxy config files), run repeatedly against one cluster;       *)
(*   - hyperknowledge/eventdb/__init__.py: the per-thread session factory  *)
(*     registry and the per-task scoped session.                           *)
(* Role and database names are the default ones the script derives from    *)
(* the application name, so an environment index identifies its database   *)
(* and its three roles.  Random tokens (token_urlsafe) are naturals.       *)
(***************************************************************************)
EXTENDS Integers, Sequences, FiniteSets, TLC

\* ------------------------------------------------------------------ bounds
MaxRuns == 2
MaxFail == 1
MaxExt == 1
MaxPrompts == 2
MaxDropRuns == 3
MaxConnRuns == 2

\* --------------------------------------------------------- program constants
POSTGREST_PORT == 3000
DATABASES == <<"development", "test", "production">>
Envs == 0 .. (Len(DATABASES) - 1)

None == "None"
Absent == "absent"
NoSection == [present |-> FALSE, owner_password |-> 0, client_password |-> 0,
              auth_secret |-> 0]
NoConf == [present |-> FALSE, port |-> 0, client |-> -1, password |-> 0, jwt |-> 0]
NoRole == [exists |-> FALSE, password |-> 0, perms |-> ""]
NoDatabase == [exists |-> FALSE, owner |-> None, jwt |-> 0, schema_owner |-> None]
EmptyIni == [postgres |-> [present |-> FALSE, user |-> Absent, sudo |-> Absent,
                           password |-> Absent, needs_password |-> Absent],
             base |-> [present |-> FALSE, app_name |-> Absent],
             env |-> [e \in Envs |-> NoSection]]
NoData == [owner_password |-> 0, client_password |-> 0, auth_secret |-> 0]
NoCommand == [cmd |-> "none", env |-> -1, target |-> ""]
NoPrev == [done |-> FALSE, ini |-> NoData, db |-> NoData]

NumThreads == 2
NumTasks == 3

\* ------------------------------------------------------------------- inputs
\* A command line: create is the set of environment indexes the
\* --no-create-<db> flags leave enabled.
CommandLine(name, password, store, create, dropdb) ==
    [app_name |-> name, user |-> None, password |-> password,
     store_password |-> store, sudo |-> None, create |-> create,
     dropdb |-> dropdb]
AllEnvs == {0, 1, 2}
\* The command lines of the provisioning runs.
CommandLines ==
    {CommandLine(None, None, FALSE, AllEnvs, FALSE),
     CommandLine("app", None, FALSE, AllEnvs, FALSE),
     CommandLine("app", None, FALSE, AllEnvs, TRUE),
     CommandLine("app", "good", TRUE, AllEnvs, FALSE),
     CommandLine("app", None, FALSE, {1, 2}, FALSE),
     CommandLine("app", None, TRUE, {0}, TRUE)}
\* Command lines that leave the development environment alone enabled.
DropCommandLines ==
    {CommandLine("app", None, FALSE, {0}, FALSE),
     CommandLine("app", None, FALSE, {0}, TRUE)}
\* Command lines that provision nothing and give the administrator's role,
\* password and sudo flag or leave them out.
ConnCommandLines ==
    {[CommandLine("app", p, st, {}, FALSE) EXCEPT !.user = u, !.sudo = sd] :
       u \in {None, "admin"}, p \in {None, "good"}, st \in BOOLEAN,
       sd \in {None, "True", "False"}}
\* What the operator may answer to the two prompts of get_conn_params.
RoleAnswers == {"", "admin"}
PasswordAnswers == {"good", "bad"}

VARIABLES
    \* the PostgreSQL cluster
    roles,        \* [Envs -> [member, owner, client -> role record]]
    extra_roles,  \* [Envs -> BOOLEAN]: a role LIKE '<database>\_\__\_%' exists
    databases,    \* [Envs -> database record]
    groups,       \* [Envs -> [owner, member -> BOOLEAN]]: client is a member
    platform,     \* sys.platform
    pg_hba,       \* how the server authenticates an administrator
    \* the files
    disk_ini,     \* config.ini
    conf,         \* [Envs -> postgrest_<db>.conf]
    \* one run of the script
    pc, args, ini_file, conn_data, last_probe, data, index, app_name,
    issued,       \* the command the last step of the script sent to psql
    \* bookkeeping of the model
    runs, fails, exts, prompts, check, generated, prev,
    \* the session registries of hyperknowledge.eventdb
    factory_registry,  \* [Kinds -> [thread key -> factory]]: ScopedRegistry.registry
    session_registry,  \* [Kinds -> [task key -> session]]
    task_state,        \* [Tasks -> "new" | "running" | "ended"]
    call,              \* [Threads -> the registry call the thread is inside]
    nobj,              \* [Kinds -> [thread or task -> objects it constructed]]
    returned_factory,  \* [Kinds -> [Threads -> factories returned to it]]
    returned_session   \* [Kinds -> [Tasks -> sessions returned to it]]

regvars == <<factory_registry, session_registry, task_state, call, nobj,
             returned_factory, returned_session>>
dbvars == <<roles, extra_roles, databases, groups>>
\* What no step of the script changes.
envvars == <<platform, pg_hba, regvars>>
filevars == <<disk_ini, conf>>
runvars == <<pc, args, ini_file, conn_data, last_probe, data, index, app_name>>
histvars == <<runs, fails, exts, prompts, check, generated, prev>>
scriptvars == <<dbvars, platform, pg_hba, filevars, runvars, issued, histvars>>

\* ------------------------------------------------- hyperknowledge.eventdb
Kinds == {"owner", "client"}
Threads == 1 .. NumThreads
Tasks == 1 .. NumTasks
\* The event loop, hence the thread, a task runs in.
ThreadOf(task) == ((task - 1) % NumThreads) + 1
\* An engine/session-factory pair or a session: the id-th object constructed
\* by its thread (a factory, task = 0) or by its task (a session).
NoObject == [id |-> 0, thread |-> 0, task |-> 0, factory |-> 0]
NoCall == [step |-> "idle", kind |-> "owner", task |-> 0, factory |-> NoObject]

\* scopefunc of the two registries, lines 55-56 and 59-60.
FactoryScope(thread) == thread
SessionScopeByThread(thread, task) == thread
SessionScope(thread, task) == task

\* ScopedRegistry.__call__: registry[key], and on KeyError
\* registry.setdefault(key, createfunc()).
SetDefault(registry, key, value) ==
    IF registry[key].id # 0 THEN registry
    ELSE [registry EXCEPT ![key] = value]

RegInit ==
    /\ factory_registry = [k \in Kinds |-> [key \in Threads |-> NoObject]]
    /\ session_registry = [k \in Kinds |-> [key \in Tasks \cup Threads |-> NoObject]]
    /\ task_state = [t \in Tasks |-> "new"]
    /\ call = [th \in Threads |-> NoCall]
    /\ nobj = [k \in Kinds |-> [c \in {"factory", "session"} |->
                 [key \in Tasks \cup Threads |-> 0]]]
    /\ returned_factory = [k \in Kinds |-> [th \in Threads |-> {}]]
    /\ returned_session = [k \in Kinds |-> [t \in Tasks |-> {}]]

\* The event loop of its thread starts running a task.
TaskStart(task) ==
    /\ task_state[task] = "new"
    /\ task_state' = [task_state EXCEPT ![task] = "running"]
    /\ UNCHANGED <<factory_registry, session_registry, call, nobj,
                   returned_factory, returned_session, scriptvars>>

\* A task ends.  Nothing in the module removes its entry: the registry is
\* changed by __call__ alone.
TaskEnd(task) ==
    /\ task_state[task] = "running"
    /\ call[ThreadOf(task)].task # task
    /\ task_state' = [task_state EXCEPT ![task] = "ended"]
    /\ UNCHANGED <<factory_registry, session_registry, call, nobj,
                   returned_factory, returned_session, scriptvars>>

\* owner_scoped_session() / client_scoped_session() in a task, lines 59-60:
\* the lookup under the key of the calling task.
SessionCall(task, kind) ==
    LET th == ThreadOf(task)
        key == SessionScope(th, task)
        found == session_registry[kind][key]
    IN /\ task_state[task] = "running"
       /\ call[th].step = "idle"
       /\ IF found.id # 0
          THEN /\ returned_session' =
                    [returned_session EXCEPT ![kind][task] = @ \cup {found}]
               /\ UNCHANGED call
          ELSE /\ call' = [call EXCEPT ![th] =
                             [step |-> "factory", kind |-> kind, task |-> task,
                              factory |-> NoObject]]
               /\ UNCHANGED returned_session
       /\ UNCHANGED <<factory_registry, session_registry, task_state, nobj,
                      returned_factory, scriptvars>>

\* owner_session_factory_registry() / client_session_factory_registry() called
\* directly by a thread, lines 55-56.
FactoryCall(th, kind) ==
    /\ call[th].step = "idle"
    /\ call' = [call EXCEPT ![th] =
                  [step |-> "factory", kind |-> kind, task |-> 0,
                   factory |-> NoObject]]
    /\ UNCHANGED <<factory_registry, session_registry, task_state, nobj,
                   returned_factory, returned_session, scriptvars>>

\* The factory registry's __call__ under the key of the calling thread: the
\* lookup, registry[key].
FactoryLookup(th) ==
    LET c == call[th]
        found == factory_registry[c.kind][FactoryScope(th)]
    IN /\ c.step = "factory"
       /\ IF found.id # 0
          THEN /\ returned_factory' =
                    [returned_factory EXCEPT ![c.kind][th] = @ \cup {found}]
               /\ call' = [call EXCEPT ![th] =
                             IF c.task = 0 THEN NoCall
                             ELSE [c EXCEPT !.step = "session", !.factory = found]]
          ELSE /\ call' = [call EXCEPT ![th].step = "make"]
               /\ UNCHANGED returned_factory
       /\ UNCHANGED <<factory_registry, session_registry, task_state, nobj,
                      returned_session, scriptvars>>

\* On KeyError: make_session_factory, lines 38-52, and
\* registry.setdefault(key, <the new pair>).
FactoryMake(th) ==
    LET c == call[th]
        key == FactoryScope(th)
        made == [id |-> nobj[c.kind]["factory"][th] + 1, thread |-> th,
                 task |-> 0, factory |-> 0]
        registry == SetDefault(factory_registry[c.kind], key, made)
        got == registry[key]
    IN /\ c.step = "make"
       /\ factory_registry' = [factory_registry EXCEPT ![c.kind] = registry]
       /\ nobj' = [nobj EXCEPT ![c.kind]["factory"][th] = @ + 1]
       /\ returned_factory' = [returned_factory EXCEPT ![c.kind][th] = @ \cup {got}]
       /\ call' = [call EXCEPT ![th] =
                     IF c.task = 0 THEN NoCall
                     ELSE [c EXCEPT !.step = "session", !.factory = got]]
       /\ UNCHANGED <<session_registry, task_state, returned_session, scriptvars>>

\* The scoped session's createfunc, lambda: <factory registry>()(), and the
\* setdefault under the key of the calling task.
SessionCreate(th) ==
    LET c == call[th]
        key == SessionScope(th, c.task)
        made == [id |-> nobj[c.kind]["session"][c.task] + 1, thread |-> th,
                 task |-> c.task, factory |-> c.factory.thread]
        registry == SetDefault(session_registry[c.kind], key, made)
    IN /\ c.step = "session"
       /\ nobj' = [nobj EXCEPT ![c.kind]["session"][c.task] = @ + 1]
       /\ session_registry' = [session_registry EXCEPT ![c.kind] = registry]
       /\ returned_session' =
            [returned_session EXCEPT ![c.kind][c.task] = @ \cup {registry[key]}]
       /\ call' = [call EXCEPT ![th] = NoCall]
       /\ UNCHANGED <<factory_registry, task_state, returned_factory, scriptvars>>

\* The owner and the client registries share no state: a behaviour of the
\* registries uses one kind, the one of its first call.
Alone(kind) ==
    \A k \in Kinds \ {kind} :
      /\ \A th \in Threads : call[th].step = "idle" \/ call[th].kind = kind
      /\ \A c \in {"factory", "session"}, key \in Tasks \cup Threads :
            nobj[k][c][key] = 0

RegNext ==
    \/ \E t \in Tasks : TaskStart(t)
    \/ \E t \in Tasks : TaskEnd(t)
    \/ \E t \in Tasks, k \in Kinds : Alone(k) /\ SessionCall(t, k)
    \/ \E th \in Threads, k \in Kinds : Alone(k) /\ FactoryCall(th, k)
    \/ \E th \in Threads : FactoryLookup(th)
    \/ \E th \in Threads : FactoryMake(th)
    \/ \E th \in Threads : SessionCreate(th)

\* ------------------------------------------------------- the administrator
\* psql_command (scripts/utils.py) runs psql and asserts on its outcome.  A
\* probe succeeds with peer authentication through sudo as the postgres
\* superuser, or with the password of the admin role over TCP; sudo and a
\* password together are refused.  A probe made without a sudo argument
\* (sudo = "default") runs without sudo.
ProbeOK(user, password, sudo) ==
    \/ pg_hba = "peer" /\ sudo = "True" /\ password = None /\ user = "postgres"
    \/ sudo # "True" /\ password = "good" /\ user = "admin"

\* get_conn_params, lines 46-51: the defaults of user and sudo.
DefaultUser(user) ==
    IF user # None THEN user
    ELSE IF platform = "darwin" THEN "me" ELSE "postgres"

DefaultSudo(sudo, password) ==
    IF platform = "darwin"
    THEN (IF sudo = None THEN "False" ELSE sudo)
    ELSE (IF sudo = None /\ password = None THEN "True"
          ELSE IF sudo = None THEN "False" ELSE sudo)

\* input(...) or user, line 59-64: a blank answer keeps the role.
AnsweredUser(answer, user) == IF answer # "" THEN answer ELSE user


RetryDoneAfterOneTurn(ok) == TRUE
\* lines 66-72: the loop is left by the break that follows a probe that
\* raised nothing.
RetryDone(ok) == ok

\* ConfigParser.getboolean("postgres", "sudo", fallback=None), line 165.
GetBoolean(text) ==
    IF text = "true" THEN "True" ELSE IF text = "false" THEN "False" ELSE None

\* str(x).lower() of a bool, lines 273 and 278.
LowerStr(b) == IF b = "True" THEN "true" ELSE "false"

\* bool(args.password), line 278.
Truthy(password) == IF password # None /\ password # "" THEN "True" ELSE "False"


ResolveAppNameDefaulted(a, ini) ==
    IF a.app_name # None THEN a.app_name
    ELSE IF ini.base.present /\ ini.base.app_name # Absent THEN ini.base.app_name
    ELSE "app"
\* The application name argparse ends with, lines 168-174 and 257.
ResolveAppName(a, ini) ==
    IF a.app_name # None THEN a.app_name
    ELSE IF ini.base.present /\ ini.base.app_name # Absent THEN ini.base.app_name
    ELSE "MISSING"

\* What the cluster and the files hold for environment e.
Snapshot(e) ==
    [done |-> TRUE,
     ini |-> [owner_password |-> disk_ini.env[e].owner_password,
              client_password |-> disk_ini.env[e].client_password,
              auth_secret |-> disk_ini.env[e].auth_secret],
     db |-> [owner_password |-> roles[e]["owner"].password,
             client_password |-> roles[e]["client"].password,
             auth_secret |-> databases[e].jwt]]

Finished == {"done", "aborted", "raised"}

\* What the last completed run of each environment left, recorded when the
\* state that run ended in is left.
Remembered ==
    [e \in Envs |->
       IF pc = "done" /\ e \in args.create THEN Snapshot(e) ELSE prev[e]]

InitWith(platforms, hbas) ==
    /\ roles = [e \in Envs |-> [k \in {"member", "owner", "client"} |-> NoRole]]
    /\ extra_roles = [e \in Envs |-> FALSE]
    /\ databases = [e \in Envs |-> NoDatabase]
    /\ groups = [e \in Envs |-> [owner |-> FALSE, member |-> FALSE]]
    /\ platform \in platforms
    /\ pg_hba \in hbas
    /\ disk_ini = EmptyIni
    /\ conf = [e \in Envs |-> NoConf]
    /\ pc = "idle"
    /\ args = [app_name |-> None, user |-> None, password |-> None,
               store_password |-> FALSE, sudo |-> None, create |-> {},
               dropdb |-> FALSE]
    /\ ini_file = EmptyIni
    /\ conn_data = [user |-> None, host |-> "localhost", password |-> None,
                    sudo |-> None]
    /\ last_probe = [user |-> None, host |-> "localhost", password |-> None,
                     sudo |-> None, answer |-> None, ok |-> FALSE]
    /\ data = NoData
    /\ index = 0
    /\ app_name = "MISSING"
    /\ issued = NoCommand
    /\ runs = 0 /\ fails = 0 /\ exts = 0 /\ prompts = 0
    /\ check = "none"
    /\ generated = {}
    /\ prev = [e \in Envs |-> NoPrev]
    /\ RegInit

Init == InitWith({"linux"}, {"peer", "md5"})

\* __main__, lines 158-267: read config.ini, parse the command line, raise on
\* a missing application name, build the connection parameters.
StartRun(a) ==
    /\ pc \in Finished \cup {"idle"}
    /\ runs' = runs + 1
    /\ args' = a
    /\ LET ini == [disk_ini EXCEPT !.postgres.present = TRUE, !.base.present = TRUE]
           name == ResolveAppName(a, disk_ini)
           ini_user == IF disk_ini.postgres.present /\ disk_ini.postgres.user # Absent
                       THEN disk_ini.postgres.user ELSE None
           ini_sudo == IF disk_ini.postgres.present
                       THEN GetBoolean(disk_ini.postgres.sudo) ELSE None
       IN /\ ini_file' = ini
          /\ app_name' = name
          /\ conn_data' = [user |-> IF a.user # None THEN a.user ELSE ini_user,
                           host |-> "localhost",
                           password |-> a.password,
                           sudo |-> IF a.sudo # None THEN a.sudo ELSE ini_sudo]
          /\ pc' = IF name = "MISSING" THEN "raised"
                   ELSE "probe"
    /\ prev' = Remembered
    /\ last_probe' = [user |-> None, host |-> "localhost", password |-> None,
                      sudo |-> None, answer |-> None, ok |-> FALSE]
    /\ data' = NoData
    /\ index' = 0
    /\ prompts' = 0
    /\ check' = "none"
    /\ generated' = {}
    /\ issued' = NoCommand
    /\ UNCHANGED <<dbvars, envvars, filevars, fails, exts>>

\* get_conn_params, lines 46-57: the defaults and the first probe.
Probe ==
    /\ pc = "probe"
    /\ LET user == DefaultUser(conn_data.user)
           sudo == DefaultSudo(conn_data.sudo, conn_data.password)
           ok == ProbeOK(user, conn_data.password, sudo)
       IN /\ conn_data' = [conn_data EXCEPT !.user = user, !.sudo = sudo]
          /\ last_probe' = [user |-> user, host |-> conn_data.host,
                            password |-> conn_data.password, sudo |-> sudo,
                            answer |-> None, ok |-> ok]
          /\ pc' = IF ok THEN "returned" ELSE "prompt"
    /\ issued' = NoCommand
    /\ UNCHANGED <<dbvars, envvars, filevars, args, ini_file, data, index,
                   app_name, histvars>>

\* get_conn_params, lines 58-72: one turn of the interactive loop.
Prompt(answer, password) ==
    /\ pc = "prompt"
    /\ prompts < MaxPrompts
    /\ prompts' = prompts + 1
    /\ LET user == AnsweredUser(answer, conn_data.user)
           ok == ProbeOK(user, password, "default")
       IN /\ conn_data' = [conn_data EXCEPT !.user = user, !.password = password]
          /\ last_probe' = [user |-> user, host |-> conn_data.host,
                            password |-> password, sudo |-> "default",
                            answer |-> answer, ok |-> ok]
          /\ pc' = IF RetryDone(ok) THEN "returned" ELSE "prompt"
    /\ issued' = NoCommand
    /\ UNCHANGED <<dbvars, envvars, filevars, args, ini_file, data, index,
                   app_name, runs, fails, exts, check, generated, prev>>

\* __main__, lines 268-280: record the connection parameters in the INI data.
Configure ==
    /\ pc = "returned"
    /\ ini_file' =
         [ini_file EXCEPT
            !.postgres.user = conn_data.user,
            !.postgres.sudo = LowerStr(conn_data.sudo),
            !.postgres.password =
                IF args.store_password THEN conn_data.password ELSE @,
            !.postgres.needs_password =
                IF args.store_password THEN @ ELSE LowerStr(Truthy(args.password)),
            !.base.app_name = app_name]
    /\ index' = 0
    /\ pc' = "loop"
    /\ issued' = NoCommand
    /\ UNCHANGED <<dbvars, envvars, filevars, args, conn_data, last_probe, data,
                   app_name, histvars>>


HasPassIgnored(d, usert) == 0
\* ---------------------------------------------------------- create_database
\* data.get(usert + "_password", None), line 83: 0 when absent.
HasPass(d, usert) ==
    IF usert = "owner" THEN d.owner_password ELSE d.client_password

\* line 96: data[usert + "_password"] = password
SetPass(d, usert, password) ==
    IF usert = "owner" THEN [d EXCEPT !.owner_password = password]
    ELSE [d EXCEPT !.client_password = password]

\* line 97
ExtraPerms(usert) == IF usert = "owner" THEN "CREATEROLE" ELSE "NOINHERIT"

\* lines 89-94: test_user_exists as the role itself, with its password.  The
\* login succeeds only for an existing role with that password, and psql may
\* fail for other reasons (the AssertionError the code catches).
UserCheck(e, usert, password) ==
    {roles[e][usert].exists /\ roles[e][usert].password = password, FALSE}

\* token_urlsafe, lines 84 and 108: a value no other call returns, here the
\* rank of the call among those the runs can make.
Token(which) ==
    (runs * Len(DATABASES) + index) * 3
      + (IF which = "owner" THEN 1 ELSE IF which = "client" THEN 2 ELSE 3)


SecretNeverReused(d) == FALSE
\* line 108: data.get("auth_secret", None) or token_urlsafe(32)
SecretReused(d) == d.auth_secret # 0


ServerPortByCount(idx) ==
    POSTGREST_PORT + Cardinality({j \in args.create : j < idx})
\* line 299: the port written to the config file of the environment at idx.
ServerPort(idx) == POSTGREST_PORT + idx

\* lines 112 and 118: which objects --dropdb removes.
DropsDatabase(e) == databases[e].exists /\ args.dropdb
DropsRoles(e) == extra_roles[e]


StoredSectionOnRequest(d) ==
    [present |-> TRUE,
     owner_password |-> IF args.store_password THEN d.owner_password ELSE 0,
     client_password |-> IF args.store_password THEN d.client_password ELSE 0,
     auth_secret |-> d.auth_secret]
\* lines 292-293: every item of data goes to the INI section.
StoredSection(d) ==
    [present |-> TRUE, owner_password |-> d.owner_password,
     client_password |-> d.client_password, auth_secret |-> d.auth_secret]


ConfFileOwnerPassword(e, d) ==
    [present |-> TRUE, port |-> ServerPort(e), client |-> e,
     password |-> d.owner_password, jwt |-> d.auth_secret]
\* lines 294-303: the REST-proxy config file of environment e.
ConfFile(e, d) ==
    [present |-> TRUE, port |-> ServerPort(e), client |-> e,
     password |-> d.client_password, jwt |-> d.auth_secret]

NextUser(usert) == IF usert = "owner" THEN "client" ELSE "secret"

\* __main__, lines 281-282: an environment disabled by --no-create-<db>.
SkipEnv ==
    /\ pc = "loop"
    /\ index < Len(DATABASES)
    /\ index \notin args.create
    /\ index' = index + 1
    /\ issued' = NoCommand
    /\ UNCHANGED <<dbvars, envvars, filevars, pc, args, ini_file, conn_data,
                   last_probe, data, app_name, histvars>>

\* __main__, lines 283-290: the input record of create_database.
BeginEnv ==
    /\ pc = "loop"
    /\ index < Len(DATABASES)
    /\ index \in args.create
    /\ data' = [owner_password |-> ini_file.env[index].owner_password,
                client_password |-> ini_file.env[index].client_password,
                auth_secret |-> ini_file.env[index].auth_secret]
    /\ ini_file' = [ini_file EXCEPT !.env[index].present = TRUE]
    /\ pc' = "member"
    /\ issued' = NoCommand
    /\ UNCHANGED <<dbvars, envvars, filevars, args, conn_data, last_probe, index,
                   app_name, histvars>>


MemberAssumed ==
    /\ pc = "member"
    /\ pc' = "owner"
    /\ issued' = NoCommand
    /\ UNCHANGED <<dbvars, envvars, filevars, args, ini_file, conn_data,
                   last_probe, data, index, app_name, histvars>>
\* create_database, lines 77-80.
Member ==
    /\ pc = "member"
    /\ IF roles[index]["member"].exists
       THEN UNCHANGED roles
       ELSE roles' = [roles EXCEPT ![index]["member"].exists = TRUE]
    /\ pc' = "owner"
    /\ issued' = IF roles[index]["member"].exists THEN NoCommand
                ELSE [cmd |-> "CREATE ROLE", env |-> index, target |-> "member"]
    /\ UNCHANGED <<extra_roles, databases, groups, envvars, filevars, args,
                   ini_file, conn_data, last_probe, data, index, app_name,
                   histvars>>


SetRoleAlwaysCreate(e, usert, password) ==
    /\ roles' = [roles EXCEPT ![e][usert] =
                   [exists |-> TRUE, password |-> password,
                    perms |-> ExtraPerms(usert)]]
    /\ issued' = [cmd |-> "CREATE USER", env |-> e, target |-> usert]

SetRoleCreateOnly(e, usert, password) ==
    /\ roles' = [roles EXCEPT ![e][usert] =
                   IF @.exists THEN @
                   ELSE [exists |-> TRUE, password |-> password,
                         perms |-> ExtraPerms(usert)]]
    /\ issued' = [cmd |-> IF roles[e][usert].exists THEN "none" ELSE "CREATE USER",
                  env |-> e, target |-> usert]
\* create_database, lines 97-107: create or alter the role.
SetRole(e, usert, password) ==
    /\ roles' = [roles EXCEPT ![e][usert] =
                   [exists |-> TRUE, password |-> password,
                    perms |-> ExtraPerms(usert)]]
    /\ issued' = [cmd |-> IF roles[e][usert].exists THEN "ALTER ROLE"
                          ELSE "CREATE USER",
                  env |-> e, target |-> usert]

\* create_database, lines 81-107: one turn of the loop over owner and client.
Role(usert) ==
    /\ pc = usert
    /\ LET has_pass == HasPass(data, usert)
       IN IF has_pass # 0
          THEN \E ok \in UserCheck(index, usert, has_pass) :
                 /\ check' = IF ok THEN "ok" ELSE "failed"
                 /\ IF ok THEN roles' = roles /\ issued' = NoCommand
                    ELSE SetRole(index, usert, has_pass)
                 /\ UNCHANGED <<data, generated>>
          ELSE /\ data' = SetPass(data, usert, Token(usert))
               /\ generated' = generated \cup {<<index, usert>>}
               /\ check' = "none"
               /\ SetRole(index, usert, Token(usert))
    /\ pc' = NextUser(usert)
    /\ UNCHANGED <<extra_roles, databases, groups, envvars, filevars, args,
                   ini_file, conn_data, last_probe, index, app_name,
                   runs, fails, exts, prompts, prev>>

\* create_database, lines 108-109.
AuthSecret ==
    /\ pc = "secret"
    /\ IF SecretReused(data)
       THEN UNCHANGED <<data, generated>>
       ELSE /\ data' = [data EXCEPT !.auth_secret = Token("secret")]
            /\ generated' = generated \cup {<<index, "secret">>}
    /\ check' = "none"
    /\ pc' = "database"
    /\ issued' = NoCommand
    /\ UNCHANGED <<dbvars, envvars, filevars, args, ini_file, conn_data,
                   last_probe, index, app_name, runs, fails, exts, prompts, prev>>

\* create_database, lines 111-117 and 120: --dropdb on an existing database.
DropDatabase ==
    /\ pc = "database"
    /\ DropsDatabase(index)
    /\ databases' = [databases EXCEPT ![index] = NoDatabase]
    /\ pc' = IF DropsRoles(index) THEN "droproles" ELSE "createdb"
    /\ issued' = [cmd |-> "DROP DATABASE", env |-> index, target |-> "database"]
    /\ UNCHANGED <<roles, extra_roles, groups, envvars, filevars, args, ini_file,
                   conn_data, last_probe, data, index, app_name,
                   histvars>>

\* create_database, lines 118-119.
DropRoles ==
    /\ pc = "droproles"
    /\ extra_roles' = [extra_roles EXCEPT ![index] = FALSE]
    /\ pc' = "createdb"
    /\ issued' = [cmd |-> "DROP ROLE", env |-> index, target |-> "extra"]
    /\ UNCHANGED <<roles, databases, groups, envvars, filevars, args, ini_file,
                   conn_data, last_probe, data, index, app_name,
                   histvars>>

\* create_database, lines 121-124.
CreateDatabase ==
    /\ \/ pc = "createdb"
       \/ pc = "database" /\ ~databases[index].exists
    /\ databases' = [databases EXCEPT ![index] =
                       [exists |-> TRUE, owner |-> "owner", jwt |-> 0,
                        schema_owner |-> "postgres"]]
    /\ pc' = "groupowner"
    /\ issued' = [cmd |-> "CREATE DATABASE", env |-> index, target |-> "database"]
    /\ UNCHANGED <<roles, extra_roles, groups, envvars, filevars, args, ini_file,
                   conn_data, last_probe, data, index, app_name,
                   histvars>>

\* create_database, lines 125-133: the database exists and is kept.  The
\* command of line 133, ALTER <database> SET OWNER TO <owner>, is not a
\* PostgreSQL statement (ALTER DATABASE <name> OWNER TO <owner> is): psql
\* reports a syntax error and the script aborts.
KeepDatabase ==
    /\ pc = "database"
    /\ databases[index].exists
    /\ ~DropsDatabase(index)
    /\ IF databases[index].owner = "owner"
       THEN pc' = "groupowner"
       ELSE pc' = "aborted"
    /\ issued' = IF databases[index].owner = "owner" THEN NoCommand
                ELSE [cmd |-> "ALTER SET OWNER", env |-> index, target |-> "database"]
    /\ UNCHANGED <<dbvars, envvars, filevars, args, ini_file, conn_data,
                   last_probe, data, index, app_name,
                   histvars>>

\* create_database, line 136.
GroupOwner ==
    /\ pc = "groupowner"
    /\ groups' = [groups EXCEPT ![index].owner = TRUE]
    /\ pc' = "groupmember"
    /\ issued' = [cmd |-> "ALTER GROUP", env |-> index, target |-> "owner"]
    /\ UNCHANGED <<roles, extra_roles, databases, envvars, filevars, args,
                   ini_file, conn_data, last_probe, data, index, app_name,
                   histvars>>

\* create_database, line 137.
GroupMember ==
    /\ pc = "groupmember"
    /\ groups' = [groups EXCEPT ![index].member = TRUE]
    /\ pc' = "jwt"
    /\ issued' = [cmd |-> "ALTER GROUP", env |-> index, target |-> "member"]
    /\ UNCHANGED <<roles, extra_roles, databases, envvars, filevars, args,
                   ini_file, conn_data, last_probe, data, index, app_name,
                   histvars>>

\* create_database, lines 138-141.
SetJwtSecret ==
    /\ pc = "jwt"
    /\ databases' = [databases EXCEPT ![index].jwt = data.auth_secret]
    /\ pc' = "schema"
    /\ issued' = [cmd |-> "ALTER DATABASE SET", env |-> index, target |-> "database"]
    /\ UNCHANGED <<roles, extra_roles, groups, envvars, filevars, args,
                   ini_file, conn_data, last_probe, data, index, app_name,
                   histvars>>


FinishEnvWithoutConf ==
    /\ pc = "schema"
    /\ databases' = [databases EXCEPT ![index].schema_owner = "owner"]
    /\ ini_file' = [ini_file EXCEPT !.env[index] = StoredSection(data)]
    /\ index' = index + 1
    /\ pc' = "loop"
    /\ issued' = [cmd |-> "ALTER SCHEMA OWNER", env |-> index, target |-> "public"]
    /\ UNCHANGED <<roles, extra_roles, groups, envvars, filevars, args,
                   conn_data, last_probe, data, app_name, histvars>>
\* create_database, lines 142-145, then __main__, lines 291-303: the schema
\* owner, the INI section and the REST-proxy config file.
FinishEnv ==
    /\ pc = "schema"
    /\ databases' = [databases EXCEPT ![index].schema_owner = "owner"]
    /\ ini_file' = [ini_file EXCEPT !.env[index] = StoredSection(data)]
    /\ conf' = [conf EXCEPT ![index] = ConfFile(index, data)]
    /\ index' = index + 1
    /\ pc' = "loop"
    /\ issued' = [cmd |-> "ALTER SCHEMA OWNER", env |-> index, target |-> "public"]
    /\ UNCHANGED <<roles, extra_roles, groups, envvars, disk_ini, args,
                   conn_data, last_probe, data, app_name, histvars>>

\* __main__, lines 305-306.
WriteIni ==
    /\ pc = "loop"
    /\ index = Len(DATABASES)
    /\ disk_ini' = ini_file
    /\ pc' = "done"
    /\ issued' = NoCommand
    /\ UNCHANGED <<dbvars, envvars, conf, args, ini_file, conn_data, last_probe,
                   data, index, app_name, histvars>>

\* An administrative psql_command fails (its assertion): nothing catches it
\* and the script ends there.
AdminSteps == {"member", "owner", "client", "database", "droproles", "createdb",
               "groupowner", "groupmember", "jwt", "schema"}

CommandFails ==
    /\ pc \in AdminSteps
    /\ fails < MaxFail
    /\ fails' = fails + 1
    /\ pc' = "aborted"
    /\ issued' = NoCommand
    /\ UNCHANGED <<dbvars, envvars, filevars, args, ini_file, conn_data,
                   last_probe, data, index, app_name,
                   runs, exts, prompts, check, generated, prev>>

\* ------------------------------------------------------------ the environment
\* Between runs the application creates a per-database role whose name the
\* pattern of line 114 matches.
AppCreatesRole(e) ==
    /\ pc \in Finished \cup {"idle"}
    /\ exts < MaxExt
    /\ databases[e].exists
    /\ ~extra_roles[e]
    /\ extra_roles' = [extra_roles EXCEPT ![e] = TRUE]
    /\ exts' = exts + 1
    /\ pc' = "idle"
    /\ prev' = Remembered
    /\ UNCHANGED <<roles, databases, groups, envvars, filevars, args, ini_file,
                   conn_data, last_probe, data, index, app_name, issued,
                   runs, fails, prompts, check, generated>>

\* Between runs an administrator gives the database to another role.
OwnerChanged(e) ==
    /\ pc \in Finished \cup {"idle"}
    /\ exts < MaxExt
    /\ databases[e].exists
    /\ databases[e].owner = "owner"
    /\ databases' = [databases EXCEPT ![e].owner = "other"]
    /\ exts' = exts + 1
    /\ pc' = "idle"
    /\ prev' = Remembered
    /\ UNCHANGED <<roles, extra_roles, groups, envvars, filevars, args, ini_file,
                   conn_data, last_probe, data, index, app_name, issued,
                   runs, fails, prompts, check, generated>>

\* Every step but the start of a run.
Steps ==
    \/ Probe
    \/ \E r \in RoleAnswers, p \in PasswordAnswers : Prompt(r, p)
    \/ Configure
    \/ SkipEnv
    \/ BeginEnv
    \/ Member
    \/ \E usert \in {"owner", "client"} : Role(usert)
    \/ AuthSecret
    \/ DropDatabase
    \/ DropRoles
    \/ CreateDatabase
    \/ KeepDatabase
    \/ GroupOwner
    \/ GroupMember
    \/ SetJwtSecret
    \/ FinishEnv
    \/ WriteIni
    \/ CommandFails

\* What happens to the databases of envs between runs.
Outside(envs) ==
    \/ \E e \in envs : AppCreatesRole(e)
    \/ \E e \in envs : OwnerChanged(e)

Next ==
    \/ \E a \in CommandLines : runs < MaxRuns /\ StartRun(a)
    \/ Steps
    \/ Outside({1})

\* Runs that provision the development environment alone.
DropNext ==
    \/ \E a \in DropCommandLines : runs < MaxDropRuns /\ StartRun(a)
    \/ Steps
    \/ Outside({0})

\* Runs that resolve the administrator's credentials and provision nothing.
ConnNext ==
    \/ \E a \in ConnCommandLines : runs < MaxConnRuns /\ StartRun(a)
    \/ Probe
    \/ \E r \in RoleAnswers, p \in PasswordAnswers : Prompt(r, p)
    \/ Configure
    \/ SkipEnv
    \/ WriteIni

vars == <<roles, extra_roles, databases, groups, platform, pg_hba, disk_ini, conf,
          pc, args, ini_file, conn_data, last_probe, data, index, app_name,
          issued, runs, fails, exts, prompts, check, generated, prev,
          factory_registry, session_registry, task_state, call, nobj,
          returned_factory, returned_session>>

\* The provisioning script, run up to MaxRuns times against one cluster.
Spec == Init /\ [][Next]_vars

\* The script run up to MaxDropRuns times on the development environment.
SpecDrop == InitWith({"linux"}, {"peer", "md5"}) /\ [][DropNext]_vars

\* The credential resolution on both platforms, up to MaxConnRuns runs.
SpecConn == InitWith({"linux", "darwin"}, {"peer", "md5"}) /\ [][ConnNext]_vars

\* The session registries under the interleavings of NumThreads threads.
SpecReg == InitWith({"linux"}, {"peer"}) /\ [][RegNext]_vars

\* ------------------------------------------------------------------ claims
\* The secrets of environment e in config.ini and in the cluster.
IniSecrets(e) ==
    [owner_password |-> disk_ini.env[e].owner_password,
     client_password |-> disk_ini.env[e].client_password,
     auth_secret |-> disk_ini.env[e].auth_secret]
ClusterSecrets(e) ==
    [owner_password |-> roles[e]["owner"].password,
     client_password |-> roles[e]["client"].password,
     auth_secret |-> databases[e].jwt]
Secrets == {"owner", "client", "secret"}
\* The password the input record of create_database carries for usert.
Supplied(usert) ==
    IF usert = "owner" THEN data.owner_password ELSE data.client_password

\* C1: a run without --dropdb that completes leaves, for every environment a
\* previous completed run provisioned, the owner password, the client password
\* and the auth secret in config.ini and in the cluster as they were after
\* that run, and generates no password or secret for it.
C1_RerunKeepsSecrets ==
    (pc = "done" /\ ~args.dropdb) =>
      \A e \in args.create :
        prev[e].done =>
          /\ IniSecrets(e) = prev[e].ini
          /\ ClusterSecrets(e) = prev[e].db
          /\ \A x \in Secrets : <<e, x>> \notin generated

C1_Witness ==
    /\ pc = "done" /\ ~args.dropdb /\ runs = 2
    /\ \E e \in args.create :
         /\ prev[e].done
         /\ prev[e].ini.owner_password # 0 /\ prev[e].ini.client_password # 0
         /\ prev[e].ini.auth_secret # 0

\* C2, as stated: a step of the loop over owner and client that finds a
\* password in the input record generates nothing and sends neither ALTER ROLE
\* nor CREATE USER.
C2_SuppliedPasswordOnlyChecked ==
    [][\A u \in {"owner", "client"} :
         (pc = u /\ pc' = NextUser(u) /\ Supplied(u) # 0) =>
           /\ generated' = generated
           /\ issued'.cmd \notin {"ALTER ROLE", "CREATE USER"}]_vars

\* C2, amended: such a step generates nothing; it sends ALTER ROLE or CREATE
\* USER only when the check made as that role with the supplied password
\* failed, and then the role gets the supplied password.
C2_SuppliedPasswordKept ==
    [][\A u \in {"owner", "client"} :
         (pc = u /\ pc' = NextUser(u) /\ Supplied(u) # 0) =>
           /\ generated' = generated /\ data' = data
           /\ check' \in {"ok", "failed"}
           /\ check' = "ok" => (issued' = NoCommand /\ roles' = roles)
           /\ check' = "failed" =>
                /\ issued'.cmd \in {"ALTER ROLE", "CREATE USER"}
                /\ roles'[index][u].password = Supplied(u)]_vars

C2_Witness ==
    /\ pc = "secret" /\ check = "failed"
    /\ issued.cmd = "ALTER ROLE" /\ issued.target = "client"
    /\ <<index, "client">> \notin generated

\* C3: a completed run with --dropdb leaves, for every provisioned environment,
\* the database owned by the owner role and no role matching the deletion
\* pattern, whether or not the database existed before the run.
C3_DropdbLeavesNoRoles ==
    (pc = "done" /\ args.dropdb) =>
      \A e \in args.create :
        /\ databases[e].exists /\ databases[e].owner = "owner"
        /\ ~extra_roles[e]

\* C4: after a completed run the connection URL of every provisioned
\* environment names its client role and carries the password that role has in
\* the cluster.
C4_UrlHasClientPassword ==
    pc = "done" =>
      \A e \in args.create :
        /\ conf[e].present /\ conf[e].client = e
        /\ roles[e]["client"].exists
        /\ conf[e].password # 0
        /\ conf[e].password = roles[e]["client"].password

C4_Witness ==
    /\ pc = "done"
    /\ \E e1, e2 \in args.create :
         /\ <<e1, "client">> \in generated
         /\ <<e2, "client">> \notin generated
         /\ conf[e1].present /\ conf[e2].present

\* C5: the config file of an environment has server-port 3000 plus the
\* environment's index, whichever environments are enabled, and a completed
\* run has written the file of every enabled environment.
C5_PortIsBasePlusIndex ==
    /\ \A e \in Envs : conf[e].present => conf[e].port = 3000 + e
    /\ \A e1, e2 \in Envs :
         (conf[e1].present /\ conf[e2].present /\ e1 # e2) =>
           conf[e1].port # conf[e2].port
    /\ pc = "done" => \A e \in args.create : conf[e].present

C5_Witness ==
    /\ pc = "done" /\ args.create = {1, 2}
    /\ ~conf[0].present /\ conf[1].present /\ conf[2].present

\* C8: get_conn_params returns only from a probe that succeeded; a failed
\* probe is followed by the prompts and another probe, never by the return;
\* a blank role answer keeps the role.
C8_ReturnsAfterSuccessfulProbe ==
    [][/\ (pc # "returned" /\ pc' = "returned") =>
            (pc \in {"probe", "prompt"} /\ last_probe'.ok)
       /\ (pc \in {"probe", "prompt"} /\ last_probe' # last_probe
             /\ ~last_probe'.ok) => pc' = "prompt"
       /\ (pc = "prompt" /\ pc' \in {"prompt", "returned"}
             /\ prompts' = prompts + 1) =>
            /\ last_probe'.user = conn_data'.user
            /\ last_probe'.password = conn_data'.password
            /\ last_probe'.answer = "" => conn_data'.user = conn_data.user
            /\ last_probe'.answer # "" => conn_data'.user = last_probe'.answer]_vars

C8_Witness ==
    /\ pc = "returned" /\ prompts = 2 /\ last_probe.ok
    /\ last_probe.answer = ""

\* C9, as stated: without --store-password the config.ini a run writes holds
\* no role password.
C9_NoRolePasswordUnlessRequested ==
    (pc = "done" /\ ~args.store_password) =>
      \A e \in Envs :
        disk_ini.env[e].owner_password = 0 /\ disk_ini.env[e].client_password = 0

\* C9, amended: every completed run writes the owner and client passwords of
\* every provisioned environment to config.ini, with or without
\* --store-password, and they are the passwords the roles have.
C9_RolePasswordsAlwaysStored ==
    pc = "done" =>
      \A e \in args.create :
        /\ disk_ini.env[e].owner_password # 0
        /\ disk_ini.env[e].client_password # 0
        /\ disk_ini.env[e].owner_password = roles[e]["owner"].password
        /\ disk_ini.env[e].client_password = roles[e]["client"].password

C9_Witness ==
    /\ pc = "done" /\ ~args.store_password
    /\ \E e \in args.create :
         /\ <<e, "owner">> \in generated /\ <<e, "client">> \in generated
         /\ disk_ini.env[e].owner_password # 0

\* C10: a run started with no application name on the command line and none
\* in config.ini raises at once: no probe is made, the cluster, config.ini and
\* the config files are as they were, and the script takes no further step.
C10_MissingAppNameRaisesFirst ==
    [][/\ (runs' = runs + 1 /\ args'.app_name = None
             /\ ~(disk_ini.base.present /\ disk_ini.base.app_name # Absent)) =>
            /\ pc' = "raised"
            /\ last_probe'.user = None /\ issued' = NoCommand
            /\ UNCHANGED <<roles, extra_roles, databases, groups, disk_ini, conf>>
       /\ (pc = "raised" /\ runs' = runs /\ exts' = exts) =>
            UNCHANGED <<pc, roles, extra_roles, databases, groups, disk_ini, conf,
                        last_probe, issued>>]_vars

C10_Witness ==
    /\ pc = "raised" /\ last_probe.user = None
    /\ \E e \in Envs : roles[e]["owner"].exists

\* What a completed create_database and lines 291-303 leave for environment e.
Provisioned(e) ==
    /\ \A r \in {"member", "owner", "client"} : roles[e][r].exists
    /\ databases[e].exists /\ databases[e].owner = "owner"
    /\ databases[e].jwt # 0
    /\ groups[e].owner /\ groups[e].member
    /\ conf[e].present /\ conf[e].client = e
    /\ conf[e].jwt = databases[e].jwt
    /\ conf[e].password = roles[e]["client"].password

\* A step of the script inside a run.
InRun == runs' = runs /\ exts' = exts

\* C11: a run a failed administrative command stopped in environment index
\* takes no further step; while a run is in environment index, every enabled
\* environment before it is fully provisioned and stays as it is, and no step
\* creates or alters a role, the database, a membership or the config file of
\* an environment after it.
C11_AbortLeavesEarlierAndLater ==
    [][/\ (pc = "aborted" /\ InRun) =>
            UNCHANGED <<roles, extra_roles, databases, groups, conf, disk_ini, pc>>
       /\ (InRun /\ pc' = "aborted") =>
            /\ pc \in AdminSteps /\ index' = index
            /\ \A e \in args.create : e < index => Provisioned(e)'
       /\ (InRun /\ pc \notin Finished \cup {"idle"}) =>
            /\ index' >= index
            /\ \A e \in Envs :
                 e # index =>
                   /\ roles'[e] = roles[e] /\ databases'[e] = databases[e]
                   /\ groups'[e] = groups[e] /\ conf'[e] = conf[e]
                   /\ extra_roles'[e] = extra_roles[e]]_vars

C11_Witness ==
    /\ pc = "aborted" /\ index = 1 /\ args.create = AllEnvs /\ runs = 1
    /\ Provisioned(0)
    /\ roles[1]["owner"].exists /\ ~databases[1].exists
    /\ ~roles[2]["member"].exists /\ ~conf[2].present /\ ~conf[1].present

\* The passwords and the secret of environment e agree between config.ini,
\* the config file and the cluster.
SecretsAgree(e) ==
    /\ disk_ini.env[e].present /\ conf[e].present
    /\ roles[e]["owner"].exists /\ roles[e]["client"].exists
    /\ databases[e].exists
    /\ disk_ini.env[e].owner_password # 0
    /\ disk_ini.env[e].owner_password = roles[e]["owner"].password
    /\ disk_ini.env[e].client_password # 0
    /\ disk_ini.env[e].client_password = roles[e]["client"].password
    /\ conf[e].password = roles[e]["client"].password
    /\ disk_ini.env[e].auth_secret # 0
    /\ disk_ini.env[e].auth_secret = databases[e].jwt
    /\ conf[e].jwt = databases[e].jwt

\* C12: once a run has been stopped by a failed administrative command, a
\* later run that completes leaves, for every enabled environment, the
\* passwords and the auth secret of config.ini, of the config file and of the
\* cluster in agreement, wherever the failed run stopped.
C12_RerunRecovers ==
    (pc = "done" /\ fails > 0) => \A e \in args.create : SecretsAgree(e)

\* The first run stopped in the test environment, after the development
\* environment was provisioned and between the creation of the owner role and
\* that of the database; the second run completed.
C12_Witness ==
    /\ pc = "done" /\ runs = 2 /\ fails = 1
    /\ 0 \in args.create /\ 1 \notin args.create
    /\ roles[1]["owner"].exists /\ ~databases[1].exists
    /\ <<0, "owner">> \in generated /\ SecretsAgree(0)

\* create_database has returned for environment e in the current run.
Completed(e) ==
    /\ pc \in {"loop", "done", "aborted"} \cup AdminSteps \cup {"secret"}
    /\ e \in args.create /\ e < index

\* C13: once create_database has completed for an environment, its member
\* role exists and its client role is in the owner group and in the member
\* group, whether or not they were there before the run.
C13_MemberRoleAndGroups ==
    \A e \in Envs :
      Completed(e) =>
        /\ roles[e]["member"].exists
        /\ groups[e].owner /\ groups[e].member

\* One environment completed with the member role and the memberships already
\* there, another with none of them before the run.
C13_Witness ==
    /\ runs = 2 /\ Completed(0) /\ Completed(1)
    /\ prev[0].done /\ ~prev[1].done
    /\ groups[0].owner /\ groups[1].member

\* C14: CREATE ROLE, CREATE USER and CREATE DATABASE are sent only for an
\* object that does not exist, ALTER ROLE only for a role that exists, and
\* a role whose password the step generated ends with that password, able to
\* log in, and with CREATEROLE (owner) or NOINHERIT (client).
C14_CreateOnlyWhenAbsent ==
    [][(InRun /\ pc' # pc) =>
         /\ issued'.cmd = "CREATE ROLE" =>
              ~roles[issued'.env]["member"].exists
         /\ issued'.cmd = "CREATE USER" =>
              ~roles[issued'.env][issued'.target].exists
         /\ issued'.cmd = "ALTER ROLE" =>
              roles[issued'.env][issued'.target].exists
         /\ issued'.cmd = "CREATE DATABASE" => ~databases[issued'.env].exists
         /\ \A u \in {"owner", "client"} :
              (<<index, u>> \in generated' /\ <<index, u>> \notin generated) =>
                /\ issued'.cmd \in {"CREATE USER", "ALTER ROLE"}
                /\ roles'[index][u].exists
                /\ roles'[index][u].password = Supplied(u)'
                /\ roles'[index][u].password # 0
                /\ roles'[index][u].perms = ExtraPerms(u)]_vars

\* A password was generated for an owner role that existed: ALTER ROLE.
C14_Witness ==
    /\ pc = "client" /\ issued.cmd = "ALTER ROLE" /\ issued.target = "owner"
    /\ <<index, "owner">> \in generated
    /\ roles[index]["member"].exists /\ databases[index].exists

\* C15: the run that completes has, for every environment it provisioned, the
\* same auth secret in app.jwt_secret, in the INI section it writes and in
\* the config file; a secret config.ini already held is that secret.
C15_OneSigningSecret ==
    [][(InRun /\ pc = "loop" /\ pc' = "done") =>
         \A e \in args.create :
           /\ disk_ini'.env[e].auth_secret # 0
           /\ disk_ini'.env[e].auth_secret = databases'[e].jwt
           /\ disk_ini'.env[e].auth_secret = conf'[e].jwt
           /\ disk_ini.env[e].auth_secret # 0 =>
                /\ disk_ini'.env[e].auth_secret = disk_ini.env[e].auth_secret
                /\ <<e, "secret">> \notin generated]_vars

\* A completed run that recreated a database whose secret config.ini held.
C15_Witness ==
    /\ pc = "done" /\ runs = 2 /\ args.dropdb
    /\ \E e \in args.create :
         /\ prev[e].done /\ prev[e].ini.auth_secret = disk_ini.env[e].auth_secret
         /\ <<e, "secret">> \notin generated
         /\ databases[e].jwt = prev[e].ini.auth_secret

\* C16: create_database run without --dropdb on a database that exists goes
\* on with the database owned by the owner role, also when another role owned
\* it, and sends no ownership command when the owner role owned it already.
C16_OwnedByOwnerRole ==
    [][(InRun /\ fails' = fails /\ pc = "database" /\ ~args.dropdb
          /\ databases[index].exists) =>
         /\ pc' = "groupowner"
         /\ databases'[index].exists /\ databases'[index].owner = "owner"
         /\ databases[index].owner = "owner" => issued' = NoCommand]_vars

\* The sudo argument a probe ran with: the retry probe of lines 67-69 passes
\* none and runs with the default of psql_command, no sudo.
ProbedSudo == IF last_probe.sudo = "default" THEN "False" ELSE last_probe.sudo

\* C17: the parameters get_conn_params returns are those of the probe that
\* succeeded last: the same user, host, password and sudo.
C17_ReturnsProbedParameters ==
    pc = "returned" =>
      /\ last_probe.ok
      /\ conn_data.user = last_probe.user
      /\ conn_data.host = last_probe.host
      /\ conn_data.password = last_probe.password
      /\ conn_data.sudo = ProbedSudo

\* C18: the config.ini a run without --store-password has written holds no
\* administrator password.
C18_NoStoredAdminPassword ==
    (pc = "done" /\ ~args.store_password) =>
      disk_ini.postgres.password = Absent

\* C19: the config.ini a run without --store-password has written has
\* needs_password true exactly when the probe that authenticated the run
\* carried a password.
C19_NeedsPasswordWhenUsed ==
    (pc = "done" /\ ~args.store_password) =>
      (disk_ini.postgres.needs_password = "true" <=> last_probe.password # None)

\* C6: under any interleaving of the threads' and tasks' first accesses, every
\* thread is returned one engine/session-factory pair, its own and the one
\* the registry holds under its identity, no pair is returned to two threads,
\* and every task is returned one session, created by that task with the pair
\* of its own thread.
C6_OnePerThreadOnePerTask ==
    \A k \in Kinds :
      /\ \A th \in Threads :
           /\ Cardinality(returned_factory[k][th]) <= 1
           /\ \A f \in returned_factory[k][th] :
                f.thread = th /\ factory_registry[k][th] = f
           /\ \A other \in Threads \ {th} :
                returned_factory[k][th] \cap returned_factory[k][other] = {}
      /\ \A t \in Tasks :
           /\ Cardinality(returned_session[k][t]) <= 1
           /\ \A x \in returned_session[k][t] :
                x.task = t /\ x.thread = ThreadOf(t) /\ x.factory = ThreadOf(t)

C6_Witness ==
    \E k \in Kinds, t1, t2 \in Tasks :
      /\ t1 # t2 /\ ThreadOf(t1) = ThreadOf(t2)
      /\ returned_session[k][t1] # {} /\ returned_session[k][t2] # {}
      /\ \A th \in Threads : returned_factory[k][th] # {}

\* C7: after a task has ended the scoped-session registry holds no session
\* under that task's identity.
C7_DiscardedWhenTaskEnds ==
    \A k \in Kinds, t \in Tasks :
      task_state[t] = "ended" =>
        session_registry[k][SessionScope(ThreadOf(t), t)].id = 0

====
